---- MODULE Spec2Model ----
(***************************************************************************)
(* pyevidence: Dempster-Shafer evidence over multi-slot hypothesis spaces. *)
(* The module models src/evidence.py: Subsets/Subset (bitmask constraint   *)
(* algebra), Mass (probability-weighted focal elements) and Inference      *)
(* (coarse fold and Monte Carlo approx).                                   *)
(*                                                                         *)
(* Probabilities are exact integers counted in units of 1e-8, the          *)
(* tolerance of Mass.add / Mass.is_valid, so that 1.0 is ONE and the       *)
(* tolerance is EPS.  The products of Inference.coarse are exact           *)
(* rationals [n, d] kept in lowest terms.                                  *)
(***************************************************************************)
EXTENDS Integers, Sequences, FiniteSets, TLC

VARIABLES
    subs,   \* the Subsets object: [slots, opts, default]
    x, y,   \* two Subset objects held by the caller (their bits)
    op,     \* the last call made, <<name, receiver>>
    err,    \* TRUE iff the last call raised
    args,   \* the arguments <<s0, p>> of the last Mass.add call
    m,      \* the Mass object held by the caller: [P, mass, probs]
    inf,    \* the Inference object: [method, mass]
    alias,  \* the positions of inf.mass that are the object m
    pc,     \* "idle", or "approx" while the loop of approx runs
    q,      \* the query of the last coarse / approx call
    n,      \* the trial count of the last approx call
    j,      \* approx: the trials done so far
    belief, plausibility,   \* approx: the two counters
    ret     \* the pair returned by the last coarse / approx

(***************************************************************************)
(* Python values that occur as option labels: a str, or a list of str.     *)
(***************************************************************************)
Str(s) == [kind |-> "str", s |-> s, l |-> <<>>]
Lst(l) == [kind |-> "list", s |-> "", l |-> l]

\* bounds
MaxSlots == 2       \* slots of the universes of the Subset algebra
MaxFocal == 3       \* focal elements the caller adds to one Mass
MaxMasses == 3      \* masses registered in one Inference
MaxN == 2           \* trials of one approx call

(***************************************************************************)
(* Integer helpers: Python's & and | on non-negative ints, 2**k.           *)
(***************************************************************************)
RECURSIVE Pow2(_)
Pow2(k) == IF k = 0 THEN 1 ELSE 2 * Pow2(k - 1)

RECURSIVE BitAnd(_, _)
BitAnd(a, b) ==
    IF a = 0 \/ b = 0 THEN 0
    ELSE (a % 2) * (b % 2) + 2 * BitAnd(a \div 2, b \div 2)

RECURSIVE BitOr(_, _)
BitOr(a, b) ==
    IF a = 0 THEN b
    ELSE IF b = 0 THEN a
    ELSE (IF a % 2 = 1 \/ b % 2 = 1 THEN 1 ELSE 0) + 2 * BitOr(a \div 2, b \div 2)

(***************************************************************************)
(* Subsets.__init__: the universe.  default = int("1" * len(opts), 2).     *)
(***************************************************************************)
Subsets(slots, opts) ==
    [slots |-> slots, opts |-> opts, default |-> Pow2(Len(opts)) - 1]

\* `o in opts` and opts.index(o), by Python equality of the values
InOpts(o, opts) == \E k \in 1..Len(opts) : opts[k] = o
IndexOf(o, opts) == (CHOOSE k \in 1..Len(opts) :
                        opts[k] = o /\ \A h \in 1..(k - 1) : opts[h] # o) - 1

\* reduce(lambda a, b: a | b, (2**opts.index(o) for o in Os))
RECURSIVE OrMasks(_, _)
OrMasks(Os, opts) ==
    IF Len(Os) = 1 THEN Pow2(IndexOf(Os[1], opts))
    ELSE BitOr(OrMasks(SubSeq(Os, 1, Len(Os) - 1), opts),
               Pow2(IndexOf(Os[Len(Os)], opts)))

(***************************************************************************)
(* Subset.__init__ through Subsets.new(settings).  settings is a function  *)
(* from slot indices (0-based) to lists of labels.  The asserts of lines   *)
(* 25-26 make the constructor raise.                                       *)
(***************************************************************************)
NewRaises(u, settings) ==
    \E i \in DOMAIN settings : \E k \in 1..Len(settings[i]) :
        ~InOpts(settings[i][k], u.opts)

NewBits(u, settings) ==
    [s \in 1..u.slots |->
        IF (s - 1) \in DOMAIN settings /\ settings[s - 1] # <<>>
        THEN OrMasks(settings[s - 1], u.opts)
        ELSE u.default]

NoSettings == [i \in {} |-> <<>>]

(***************************************************************************)
(* Subset methods on the per-slot bit lists.                               *)
(***************************************************************************)
conj(s, s0) == [i \in 1..Len(s) |-> BitAnd(s[i], s0[i])]

\* a hull that intersects instead of uniting (the body of conj pasted)
hull_and(s, s0) == [i \in 1..Len(s) |-> BitAnd(s[i], s0[i])]

hull(s, s0) == [i \in 1..Len(s) |-> BitOr(s[i], s0[i])]

is_empty(s) == \E i \in 1..Len(s) : s[i] = 0

is_omega(u, s) == \A i \in 1..Len(s) : s[i] = u.default

\* an implies with the operands of the comparison exchanged
implies_swapped(s, s0) == \A i \in 1..Len(s) : BitAnd(s[i], s0[i]) = s0[i]

implies(s, s0) == \A i \in 1..Len(s) : BitAnd(s[i], s0[i]) = s[i]

intersects(s, s0) == \A i \in 1..Len(s) : BitAnd(s[i], s0[i]) # 0

\* Subset.__to_opts: the labels whose bit is set in mask, in alphabet order
RECURSIVE SelectOpts(_, _, _)
SelectOpts(opts, mask, k) ==
    IF k > Len(opts) THEN <<>>
    ELSE (IF BitAnd(mask, Pow2(k - 1)) = Pow2(k - 1) THEN <<opts[k]>> ELSE <<>>)
         \o SelectOpts(opts, mask, k + 1)

to_opts(u, mask) == SelectOpts(u.opts, mask, 1)

\* itertools.product(*lists): the tuples in order, first list outermost
RECURSIVE Product(_)
Product(lists) ==
    IF Len(lists) = 0 THEN << <<>> >>
    ELSE LET rest == Product(Tail(lists))
             head == lists[1]
             Row(k) == [r \in 1..Len(rest) |-> <<head[k]>> \o rest[r]]
             RECURSIVE Rows(_)
             Rows(k) == IF k > Len(head) THEN <<>> ELSE Row(k) \o Rows(k + 1)
         IN  Rows(1)

generate(u, s) == Product([i \in 1..Len(s) |-> to_opts(u, s[i])])

Range(seq) == {seq[i] : i \in 1..Len(seq)}


(***************************************************************************)
(* Numbers.  A probability is an integer count of units of 1e-8; the       *)
(* sums of Mass.add are sums of such counts.  coarse multiplies, so its    *)
(* values are exact rationals [n, d] with d > 0, in lowest terms.          *)
(***************************************************************************)
ONE == 100000000    \* 1.0 in units of 1e-8
EPS == 1            \* 1e-8 in units of 1e-8

Abs(a) == IF a < 0 THEN -a ELSE a

RECURSIVE Gcd(_, _)
Gcd(a, b) == IF b = 0 THEN a ELSE Gcd(b, a % b)

Rat(num, den) ==
    LET g == Gcd(Abs(num), den) IN [n |-> num \div g, d |-> den \div g]

RInt(k) == [n |-> k, d |-> 1]
RAdd(a, b) == Rat(a.n * b.d + b.n * a.d, a.d * b.d)
RSub(a, b) == Rat(a.n * b.d - b.n * a.d, a.d * b.d)
RMul(a, b) == Rat(a.n * b.n, a.d * b.d)
RLe(a, b) == a.n * b.d <= b.n * a.d

\* a probability p (a float of the code) as a rational
Prob(p) == Rat(p, ONE)

(***************************************************************************)
(* Mass.                                                                   *)
(***************************************************************************)
Mass0 == [P |-> 0, mass |-> <<>>, probs |-> <<>>]

\* asserts that bound p alone and forget the running total
AddRaisesNoTotal(mm, p) == ~(0 <= p /\ p <= ONE) \/ ~(p <= ONE + EPS)

\* Mass.add: the asserts of lines 104-105 (s0 is a Subset)
AddRaises(mm, p) == ~(0 <= p /\ p <= ONE) \/ ~(mm.P + p <= ONE + EPS)

\* Mass.add: lines 106-109
Add(mm, s0, p) ==
    [P |-> mm.P + p, mass |-> Append(mm.mass, s0), probs |-> Append(mm.probs, p)]

\* a validation that only bounds the total from above
IsValidRaisesUpper(mm) == ~(mm.P - ONE <= EPS)

\* Mass.is_valid: the assert of line 113
IsValidRaises(mm) == ~(Abs(mm.P - ONE) <= EPS)

\* Mass.sample: the focal elements numpy.random.choice can draw, by position
Drawable(mm) == {k \in 1..Len(mm.mass) : mm.probs[k] > 0}

(***************************************************************************)
(* Inference.                                                              *)
(***************************************************************************)
YAGER == "yager"
DP == "dubois-prade"

Inference(method) == [method |-> method, mass |-> <<>>]

\* asserts that let the universal query through
QueryRaisesNoOmega(e, qq) == Len(e.mass) = 0 \/ is_empty(qq)

\* the asserts that open coarse and approx (lines 141-142, 164-165)
QueryRaises(e, qq) == Len(e.mass) = 0 \/ is_empty(qq) \/ is_omega(subs, qq)

\* sum(p for x, p in zip(mm.mass, mm.probs) if x.implies(q)), from position k
RECURSIVE SumImplying(_, _, _)
SumImplying(mm, qq, k) ==
    IF k > Len(mm.mass) THEN 0
    ELSE (IF implies(mm.mass[k], qq) THEN mm.probs[k] ELSE 0)
         + SumImplying(mm, qq, k + 1)

\* sum(p for x, p in zip(mm.mass, mm.probs) if not x.intersects(q))
RECURSIVE SumDisjoint(_, _, _)
SumDisjoint(mm, qq, k) ==
    IF k > Len(mm.mass) THEN 0
    ELSE (IF ~intersects(mm.mass[k], qq) THEN mm.probs[k] ELSE 0)
         + SumDisjoint(mm, qq, k + 1)

\* As and Bs of coarse (lines 144-145)
As(e, qq) == [i \in 1..Len(e.mass) |-> Prob(SumImplying(e.mass[i], qq, 1))]
Bs(e, qq) == [i \in 1..Len(e.mass) |-> Prob(SumDisjoint(e.mass[i], qq, 1))]

\* a fold step whose first line adds u0*b_i where the code adds u0*a_i
FoldStepSlip(acc, a_i, b_i) ==
    LET u_i == RSub(RSub(RInt(1), a_i), b_i)
    IN  [a |-> RAdd(RAdd(RMul(acc.a, a_i), RMul(acc.a, u_i)), RMul(acc.u, b_i)),
         b |-> RAdd(RAdd(RMul(acc.b, b_i), RMul(acc.b, u_i)), RMul(acc.u, b_i)),
         u |-> RAdd(RAdd(RMul(acc.u, u_i), RMul(acc.a, b_i)), RMul(acc.b, a_i))]

\* the body of the loop of coarse (lines 154-158)
FoldStep(acc, a_i, b_i) ==
    LET u_i == RSub(RSub(RInt(1), a_i), b_i)
    IN  [a |-> RAdd(RAdd(RMul(acc.a, a_i), RMul(acc.a, u_i)), RMul(acc.u, a_i)),
         b |-> RAdd(RAdd(RMul(acc.b, b_i), RMul(acc.b, u_i)), RMul(acc.u, b_i)),
         u |-> RAdd(RAdd(RMul(acc.u, u_i), RMul(acc.a, b_i)), RMul(acc.b, a_i))]

\* the loop of coarse (line 153), from position i of As[1:] / Bs[1:]
RECURSIVE FoldLoop(_, _, _, _)
FoldLoop(acc, as, bs, i) ==
    IF i > Len(as) THEN acc
    ELSE FoldLoop(FoldStep(acc, as[i], bs[i]), as, bs, i + 1)

\* Inference.coarse after its asserts (lines 144-160)
coarse(e, qq) ==
    LET as == As(e, qq)
        bs == Bs(e, qq)
        first == [a |-> as[1], b |-> bs[1],
                  u |-> RSub(RSub(RInt(1), as[1]), bs[1])]
        last == FoldLoop(first, as, bs, 2)
    IN  IF Len(as) = 1
        THEN [bel |-> first.a, pl |-> RSub(RInt(1), first.b)]
        ELSE [bel |-> last.a, pl |-> RSub(RInt(1), last.b)]

\* a reduce without initializer: the first drawn focal element is the receiver
ReceiverFirst(E) == 1

\* conj writes its receiver in place (lines 34-35), and reduce keeps calling
\* conj on what the first call returned: the object written by line 173 is
\* its initializer, the fresh q.parent.new().  0 names that fresh object, -1
\* would name q and k >= 1 the k-th drawn focal element.
Receiver(E) == 0

\* reduce(f, E, q.parent.new()) with f = lambda a, b: a.conj(b) (line 173)
RECURSIVE ConjAll(_, _, _)
ConjAll(acc, E, k) ==
    IF k > Len(E) THEN acc ELSE ConjAll(conj(acc, E[k]), E, k + 1)

Combined(E) == ConjAll(NewBits(subs, NoSettings), E, 1)

\* one trial of approx: what it adds to belief (lines 175-176, 180-183)
TrialBelief(method, E, qq) ==
    LET S == Combined(E)
    IN  IF ~is_empty(S)
        THEN (IF implies(S, qq) THEN 1 ELSE 0)
        ELSE IF method = YAGER THEN 0
        ELSE (IF \A k \in 1..Len(E) : implies(E[k], qq) THEN 1 ELSE 0)

\* one trial of approx: what it adds to plausibility (lines 177, 181, 184)
TrialPlausibility(method, E, qq) ==
    LET S == Combined(E)
    IN  IF ~is_empty(S)
        THEN (IF intersects(S, qq) THEN 1 ELSE 0)
        ELSE IF method = YAGER THEN 1
        ELSE (IF \E k \in 1..Len(E) : intersects(E[k], qq) THEN 1 ELSE 0)

\* the draws of one trial: one drawable position per registered mass
DrawIdx(e) ==
    {f \in [1..Len(e.mass) -> UNION {Drawable(e.mass[i]) : i \in 1..Len(e.mass)}] :
        \A i \in 1..Len(e.mass) : f[i] \in Drawable(e.mass[i])}

\* E = [x[j] for x in Es] (line 172) for the draw f
Drawn(e, f) == [i \in 1..Len(e.mass) |-> e.mass[i].mass[f[i]]]

NoRet == [bel |-> RInt(0), pl |-> RInt(0)]
(***************************************************************************)
(* Inputs of the Subset algebra specification.                             *)
(***************************************************************************)
AB == <<Str("a"), Str("b")>>
ABC == <<Str("a"), Str("b"), Str("c")>>
PerSlotOpts ==
    <<Lst(<<"a", "b", "c">>), Lst(<<"x", "y">>), Lst(<<"i", "j", "k", "l">>)>>

\* the universes the callers construct: one shared alphabet, or one per slot
SubUniverses ==
    {Subsets(k, AB) : k \in 1..MaxSlots}
        \cup {Subsets(1, ABC), Subsets(Len(PerSlotOpts), PerSlotOpts)}

IsPerSlot(u) == \A k \in 1..Len(u.opts) : u.opts[k].kind = "list"

\* the alphabet the caller means for slot i (0-based), as a list of labels
Alphabet(u, i) ==
    IF IsPerSlot(u)
    THEN [k \in 1..Len(u.opts[i + 1].l) |-> Str(u.opts[i + 1].l[k])]
    ELSE u.opts

\* the sub-lists of a list, each in the order of the list
RECURSIVE SubLists(_)
SubLists(l) ==
    IF Len(l) = 0 THEN {<<>>}
    ELSE LET r == SubLists(Tail(l)) IN r \cup {<<l[1]>> \o t : t \in r}

SettingsOver(u) ==
    UNION {{f \in [D -> UNION {SubLists(Alphabet(u, i)) : i \in D}] :
                \A i \in D : f[i] \in SubLists(Alphabet(u, i))} :
           D \in SUBSET (0..(u.slots - 1))}

(***************************************************************************)
(* Inputs of the Mass and Inference specifications.                        *)
(***************************************************************************)
\* the universes of the inference tests (test_inference.py:29, 115)
InfUniverses == {Subsets(1, AB), Subsets(2, ABC)}

\* focal elements: slot 0 held to the first / second option, Omega, and the
\* conj and the hull of the first two
FQ(u) == NewBits(u, [i \in {0} |-> <<u.opts[1]>>])
FN(u) == NewBits(u, [i \in {0} |-> <<u.opts[2]>>])
FO(u) == NewBits(u, NoSettings)
FB(u) == conj(FQ(u), FN(u))
FH(u) == hull(FQ(u), FN(u))

Tenths(k) == k * (ONE \div 10)

\* Mass().add(c1, p1).add(c2, p2)... for a list of calls <<c, p>>
RECURSIVE AddAll(_, _, _)
AddAll(mm, calls, k) ==
    IF k > Len(calls) THEN mm
    ELSE AddAll(Add(mm, calls[k][1], calls[k][2]), calls, k + 1)

BuildMass(calls) == AddAll(Mass0, calls, 1)

\* the masses the callers register.  In the one-slot universe: the two sources
\* of the three-state tests, a source on an empty conj, and one left
\* unnormalized.  In the two-slot universe: single-focal sources on q, on a
\* constraint disjoint from q and on an empty conj, and a source with an
\* ambiguous focal element.
MassInputs(u) ==
    {BuildMass(calls) : calls \in
        IF u.slots = 1
        THEN { << <<FQ(u), Tenths(2)>>, <<FN(u), Tenths(3)>>, <<FO(u), Tenths(5)>> >>,
               << <<FQ(u), Tenths(6)>>, <<FN(u), Tenths(1)>>, <<FO(u), Tenths(3)>> >>,
               << <<FB(u), ONE>> >>,
               << <<FQ(u), Tenths(5)>> >> }
        ELSE { << <<FQ(u), ONE>> >>,
               << <<FN(u), ONE>> >>,
               << <<FB(u), ONE>> >>,
               << <<FQ(u), Tenths(5)>>, <<FH(u), Tenths(5)>> >> }}

\* the queries: the focal elements above, and slot 0 held to the last option
QueryInputs(u) ==
    {FQ(u), FN(u), FO(u), FB(u), FH(u),
     NewBits(u, [i \in {0} |-> <<u.opts[Len(u.opts)]>>])}

MassInputsOf == [u \in InfUniverses |-> MassInputs(u)]
QueryInputsOf == [u \in InfUniverses |-> QueryInputs(u)]

\* the probabilities passed to Mass.add
AddProbs ==
    {-1, 0, EPS, Tenths(5), Tenths(6), ONE - EPS, ONE, ONE + EPS}

(***************************************************************************)
(* State.                                                                  *)
(***************************************************************************)
vars == <<subs, x, y, op, err, args, m, inf, alias, pc, q, n, j, belief, plausibility, ret>>

subsetVars == <<x, y>>
frameVars == <<q, n, j, belief, plausibility, ret>>
engineVars == <<args, m, inf, alias, pc, q, n, j, belief, plausibility, ret>>

NoArgs == <<NewBits(subs, NoSettings), 0>>

\* no query made yet: the frame of coarse / approx holds nothing
NoFrame ==
    /\ args = NoArgs
    /\ q = NewBits(subs, NoSettings)
    /\ n = 0
    /\ j = 0
    /\ belief = 0
    /\ plausibility = 0
    /\ ret = NoRet

(***************************************************************************)
(* The Subset algebra as a state machine: a caller holding two Subset      *)
(* objects x and y of one universe.                                        *)
(***************************************************************************)
InitSub ==
    /\ subs \in SubUniverses
    /\ x = NewBits(subs, NoSettings)
    /\ y = NewBits(subs, NoSettings)
    /\ op = <<"new", "x">>
    /\ err = FALSE
    /\ m = Mass0
    /\ inf = Inference(DP)
    /\ alias = {}
    /\ pc = "idle"
    /\ NoFrame

\* x = subs.new(settings)
NewX(settings) ==
    /\ op' = <<"new", "x">>
    /\ IF NewRaises(subs, settings)
       THEN err' = TRUE /\ UNCHANGED <<x>>
       ELSE err' = FALSE /\ x' = NewBits(subs, settings)
    /\ UNCHANGED <<subs, y>>
    /\ UNCHANGED engineVars

\* y = subs.new(settings)
NewY(settings) ==
    /\ op' = <<"new", "y">>
    /\ IF NewRaises(subs, settings)
       THEN err' = TRUE /\ UNCHANGED <<y>>
       ELSE err' = FALSE /\ y' = NewBits(subs, settings)
    /\ UNCHANGED <<subs, x>>
    /\ UNCHANGED engineVars

\* x.conj(y): in place on the receiver
ConjX ==
    /\ x' = conj(x, y)
    /\ op' = <<"conj", "x">>
    /\ err' = FALSE
    /\ UNCHANGED <<subs, y>>
    /\ UNCHANGED engineVars

\* y.conj(x)
ConjY ==
    /\ y' = conj(y, x)
    /\ op' = <<"conj", "y">>
    /\ err' = FALSE
    /\ UNCHANGED <<subs, x>>
    /\ UNCHANGED engineVars

\* x.hull(y)
HullX ==
    /\ x' = hull(x, y)
    /\ op' = <<"hull", "x">>
    /\ err' = FALSE
    /\ UNCHANGED <<subs, y>>
    /\ UNCHANGED engineVars

\* y.hull(x)
HullY ==
    /\ y' = hull(y, x)
    /\ op' = <<"hull", "y">>
    /\ err' = FALSE
    /\ UNCHANGED <<subs, x>>
    /\ UNCHANGED engineVars

NextSub ==
    \/ \E settings \in SettingsOver(subs) : NewX(settings)
    \/ \E settings \in SettingsOver(subs) : NewY(settings)
    \/ ConjX
    \/ ConjY
    \/ HullX
    \/ HullY

SpecSub == InitSub /\ [][NextSub]_vars

(***************************************************************************)
(* Mass and Inference as a state machine.  The caller holds one Mass       *)
(* object m; add_mass stores the object itself, so a later m.add is seen   *)
(* through the positions of inf.mass that alias m.  A call that starts     *)
(* drops the frame and the result of the query before it.                  *)
(***************************************************************************)
ClearFrame ==
    /\ q' = NewBits(subs, NoSettings)
    /\ n' = 0
    /\ j' = 0
    /\ belief' = 0
    /\ plausibility' = 0
    /\ ret' = NoRet

\* m = Mass(), by a caller that has registered nothing yet
MassNew ==
    /\ pc = "idle"
    /\ Len(inf.mass) = 0
    /\ m' = Mass0
    /\ alias' = {}
    /\ op' = <<"Mass", "m">>
    /\ err' = FALSE
    /\ ClearFrame
    /\ UNCHANGED <<subs, subsetVars, args, inf, pc>>

\* m.add(s0, p)
MassAdd(s0, p) ==
    /\ pc = "idle"
    /\ Len(m.mass) < MaxFocal
    /\ op' = <<"add", "m">>
    /\ args' = <<s0, p>>
    /\ IF AddRaises(m, p)
       THEN /\ err' = TRUE
            /\ UNCHANGED <<m, inf>>
       ELSE /\ err' = FALSE
            /\ m' = Add(m, s0, p)
            /\ inf' = [inf EXCEPT !.mass =
                          [i \in 1..Len(inf.mass) |->
                              IF i \in alias THEN Add(m, s0, p) ELSE inf.mass[i]]]
    /\ ClearFrame
    /\ UNCHANGED <<subs, subsetVars, alias, pc>>

\* inf.add_mass(mm) for a mass object other than m
AddMass(mm) ==
    /\ pc = "idle"
    /\ Len(inf.mass) < MaxMasses
    /\ op' = <<"add_mass", "inf">>
    /\ IF IsValidRaises(mm)
       THEN err' = TRUE /\ UNCHANGED inf
       ELSE err' = FALSE /\ inf' = [inf EXCEPT !.mass = Append(inf.mass, mm)]
    /\ ClearFrame
    /\ UNCHANGED <<subs, subsetVars, args, m, alias, pc>>

\* inf.add_mass(m)
AddMassM ==
    /\ pc = "idle"
    /\ Len(inf.mass) < MaxMasses
    /\ op' = <<"add_mass", "inf">>
    /\ IF IsValidRaises(m)
       THEN err' = TRUE /\ UNCHANGED <<inf, alias>>
       ELSE /\ err' = FALSE
            /\ inf' = [inf EXCEPT !.mass = Append(inf.mass, m)]
            /\ alias' = alias \cup {Len(inf.mass) + 1}
    /\ ClearFrame
    /\ UNCHANGED <<subs, subsetVars, args, m, pc>>

\* inf.coarse(qq)
Coarse(qq) ==
    /\ pc = "idle"
    /\ op' = <<"coarse", "inf">>
    /\ q' = qq
    /\ IF QueryRaises(inf, qq)
       THEN err' = TRUE /\ ret' = NoRet
       ELSE err' = FALSE /\ ret' = coarse(inf, qq)
    /\ n' = 0 /\ j' = 0 /\ belief' = 0 /\ plausibility' = 0
    /\ UNCHANGED <<subs, subsetVars, args, m, inf, alias, pc>>

\* inf.approx(qq, nn): the asserts and line 166.  The samples of line 168 are
\* independent draws; each trial's are chosen when the trial runs.
ApproxCall(qq, nn) ==
    /\ pc = "idle"
    /\ op' = <<"approx", "inf">>
    /\ q' = qq
    /\ n' = nn
    /\ j' = 0 /\ belief' = 0 /\ plausibility' = 0 /\ ret' = NoRet
    /\ IF QueryRaises(inf, qq)
       THEN err' = TRUE /\ pc' = "idle"
       ELSE err' = FALSE /\ pc' = "approx"
    /\ UNCHANGED <<subs, subsetVars, args, m, inf, alias>>

\* one pass of the loop of approx (lines 171-184) with the draw f.  The
\* object the reduce of line 173 folds into holds the conjunction afterwards.
ApproxTrial(f) ==
    LET E == Drawn(inf, f)
        r == Receiver(E)
        written ==
            IF r >= 1
            THEN [inf EXCEPT !.mass[r].mass[f[r]] = ConjAll(E[r], E, 1)]
            ELSE inf
    IN  /\ pc = "approx"
        /\ j < n
        /\ belief' = belief + TrialBelief(inf.method, E, q)
        /\ plausibility' = plausibility + TrialPlausibility(inf.method, E, q)
        /\ j' = j + 1
        /\ inf' = written
        /\ m' = IF r \in alias THEN written.mass[r] ELSE m
        /\ q' = IF r = -1 THEN ConjAll(q, E, 1) ELSE q
        /\ UNCHANGED <<subs, subsetVars, args, op, err, alias, pc, n, ret>>

\* the return of approx (line 186); n = 0 divides by zero
ApproxReturn ==
    /\ pc = "approx"
    /\ j = n
    /\ pc' = "idle"
    /\ IF n = 0
       THEN err' = TRUE /\ UNCHANGED ret
       ELSE err' = FALSE /\ ret' = [bel |-> Rat(belief, n), pl |-> Rat(plausibility, n)]
    /\ UNCHANGED <<subs, subsetVars, args, op, m, inf, alias, q, n, j, belief, plausibility>>

\* the engine: masses are registered, then queried
Init ==
    /\ subs \in InfUniverses
    /\ x = NewBits(subs, NoSettings)
    /\ y = NewBits(subs, NoSettings)
    /\ op = <<"Inference", "inf">>
    /\ err = FALSE
    /\ m = Mass0
    /\ inf \in {Inference(YAGER), Inference(DP)}
    /\ alias = {}
    /\ pc = "idle"
    /\ NoFrame

Next ==
    \/ \E mm \in MassInputsOf[subs] : AddMass(mm)
    \/ \E qq \in QueryInputsOf[subs] : Coarse(qq)
    \/ \E qq \in QueryInputsOf[subs] : \E nn \in 0..MaxN : ApproxCall(qq, nn)
    \/ \E f \in DrawIdx(inf) : ApproxTrial(f)
    \/ ApproxReturn

Spec == Init /\ [][Next]_vars

\* the caller building a mass with Mass.add and registering it
InitMass ==
    /\ subs = Subsets(1, AB)
    /\ x = NewBits(subs, NoSettings)
    /\ y = NewBits(subs, NoSettings)
    /\ op = <<"Mass", "m">>
    /\ err = FALSE
    /\ m = Mass0
    /\ inf = Inference(DP)
    /\ alias = {}
    /\ pc = "idle"
    /\ NoFrame

NextMass ==
    \/ MassNew
    \/ \E s0 \in {FQ(subs), FB(subs)} : \E p \in AddProbs : MassAdd(s0, p)
    \/ AddMassM

SpecMass == InitMass /\ [][NextMass]_vars

(***************************************************************************)
(* Claims on the Subset algebra (checked under SpecSub).                   *)
(***************************************************************************)
Tuples(s) == Range(generate(subs, s))

\* the tuples allowed slot by slot by a or by b
SlotwiseUnion(a, b) ==
    {t \in Range(Product([i \in 1..Len(a) |-> to_opts(subs, subs.default)])) :
        \A i \in 1..Len(a) :
            t[i] \in Range(to_opts(subs, a[i])) \cup Range(to_opts(subs, b[i]))}

\* C5 as stated: after a.hull(b), generate() yields exactly the union of what
\* a.generate() and b.generate() yielded before the call, for any slot count.
C5_HullIsUnion ==
    [][/\ (op' = <<"hull", "x">> => Tuples(x') = Tuples(x) \cup Tuples(y))
       /\ (op' = <<"hull", "y">> => Tuples(y') = Tuples(y) \cup Tuples(x))]_vars

\* C5 amended: after a.hull(b), generate() yields every tuple of a.generate()
\* and of b.generate(): exactly the tuples each of whose slots holds an option
\* that a or b allows in that slot.  That is the union when the space has one
\* slot, and a superset of it otherwise.
C5_HullCoversUnion ==
    [][/\ (op' = <<"hull", "x">> =>
            /\ Tuples(x) \cup Tuples(y) \subseteq Tuples(x')
            /\ Tuples(x') = SlotwiseUnion(x, y)
            /\ (subs.slots = 1 => Tuples(x') = Tuples(x) \cup Tuples(y)))
       /\ (op' = <<"hull", "y">> =>
            /\ Tuples(y) \cup Tuples(x) \subseteq Tuples(y')
            /\ Tuples(y') = SlotwiseUnion(y, x)
            /\ (subs.slots = 1 => Tuples(y') = Tuples(y) \cup Tuples(x)))]_vars

\* a hull of two slots has acted and left a proper, non-empty constraint that
\* differs from its argument
C5_Witness ==
    /\ op = <<"hull", "x">>
    /\ subs.slots = 2
    /\ ~is_empty(x) /\ ~is_omega(subs, x)
    /\ ~is_empty(y) /\ x # y

\* the per-slot alphabets the caller passed, as lists of labels
Alphabets(u) == [s \in 1..u.slots |-> Alphabet(u, s - 1)]

\* C6 as stated: with per-slot alphabets, new().generate() is the Cartesian
\* product of the alphabets, new() is Omega, and new({0: [l]}) yields the
\* product with slot 0 restricted to l, for every label l of slot 0.
C6_PerSlotAlphabets ==
    IsPerSlot(subs) =>
        /\ ~NewRaises(subs, NoSettings)
        /\ generate(subs, NewBits(subs, NoSettings)) = Product(Alphabets(subs))
        /\ is_omega(subs, NewBits(subs, NoSettings))
        /\ \A k \in 1..Len(Alphabet(subs, 0)) :
             LET l == Alphabet(subs, 0)[k]
                 settings == [i \in {0} |-> <<l>>]
             IN  /\ ~NewRaises(subs, settings)
                 /\ generate(subs, NewBits(subs, settings))
                      = Product([s \in 1..subs.slots |->
                                    IF s = 1 THEN <<l>> ELSE Alphabet(subs, s - 1)])

AllZero(s) == \A i \in 1..Len(s) : s[i] = 0

\* C7 as stated: every constraint c implies every empty constraint e.
C7_BottomImpliedByAll ==
    \A c \in {x, y} : \A e \in {x, y} : is_empty(e) => implies(c, e)

\* C7 amended: the implication runs the other way.  The constraint whose mask
\* is zero in every slot implies every constraint, and a constraint c implies
\* an empty constraint e only if c is itself empty.
C7_BottomImpliesAll ==
    \A c \in {x, y} : \A e \in {x, y} :
        /\ (AllZero(e) => implies(e, c))
        /\ (is_empty(e) /\ implies(c, e) => is_empty(c))

\* an all-zero constraint (made by conj) beside a non-empty proper constraint
C7_Witness ==
    /\ subs.slots = 2
    /\ AllZero(y) /\ op = <<"conj", "y">>
    /\ ~is_empty(x) /\ ~is_omega(subs, x)
    /\ implies(y, x) /\ ~implies(x, y)

(***************************************************************************)
(* Claims on Inference (checked under Spec).                               *)
(***************************************************************************)
CoarseReturned == op = <<"coarse", "inf">> /\ ~err
ApproxRunning == op = <<"approx", "inf">> /\ ~err
ApproxReturned == op = <<"approx", "inf">> /\ ~err /\ pc = "idle"

\* C1: during and at the end of approx(q, n), for either conflict method and
\* whatever focal elements Mass.add accepted, 0 <= belief <= plausibility <= n,
\* so that the pair returned satisfies 0 <= belief <= plausibility <= 1.
C1_ApproxOrdered ==
    /\ (ApproxRunning =>
            0 <= belief /\ belief <= plausibility /\ plausibility <= j /\ j <= n)
    /\ (ApproxReturned =>
            RLe(RInt(0), ret.bel) /\ RLe(ret.bel, ret.pl) /\ RLe(ret.pl, RInt(1)))

\* the engine that registered the same masses in the order perm
Reordered(e, perm) == [e EXCEPT !.mass = [i \in 1..Len(e.mass) |-> e.mass[perm[i]]]]

\* every focal element of every registered mass is a non-empty constraint
NoEmptyFocal(e) ==
    \A i \in 1..Len(e.mass) : \A k \in 1..Len(e.mass[i].mass) :
        ~is_empty(e.mass[i].mass[k])

\* C2: coarse(q) does not depend on the order of registration: an engine that
\* registered the same two or more masses in any other order returns the same
\* pair.  Stated for masses that are normalized and hold no empty focal
\* element, so that what refutes it is the fold alone.
C2_CoarseOrderInvariant ==
    (CoarseReturned /\ Len(inf.mass) >= 2 /\ NoEmptyFocal(inf)) =>
        \A perm \in Permutations(1..Len(inf.mass)) :
            coarse(Reordered(inf, perm), q) = ret

\* the exact expectation of what one trial of approx adds to a counter: over
\* the draws that extend the focal elements E already drawn, weighted by their
\* probabilities; k runs over the focal elements of the next mass
RECURSIVE Expected(_, _, _, _, _)
Expected(e, qq, E, k, counter) ==
    IF Len(E) = Len(e.mass)
    THEN RInt(IF counter = "belief" THEN TrialBelief(e.method, E, qq)
                                    ELSE TrialPlausibility(e.method, E, qq))
    ELSE LET mm == e.mass[Len(E) + 1]
         IN  IF k > Len(mm.mass) THEN RInt(0)
             ELSE RAdd(RMul(Prob(mm.probs[k]),
                            Expected(e, qq, Append(E, mm.mass[k]), 1, counter)),
                       Expected(e, qq, E, k + 1, counter))

\* c is the complement of qq: it holds exactly the tuples qq does not
IsComplement(c, qq) ==
    Range(generate(subs, c))
        = Range(generate(subs, NewBits(subs, NoSettings))) \ Range(generate(subs, qq))

\* every focal element of every registered mass is q, its complement, or Omega
Ternary(e, qq) ==
    \A i \in 1..Len(e.mass) : \A k \in 1..Len(e.mass[i].mass) :
        LET c == e.mass[i].mass[k]
        IN  c = qq \/ is_omega(subs, c) \/ IsComplement(c, qq)

\* C3: on the ternary family, for any number of registered masses and either
\* method, the exact expected value of one approx trial is the pair coarse
\* returns.
C3_ApproxExpectationIsCoarse ==
    (CoarseReturned /\ Ternary(inf, q)) =>
        /\ Expected(inf, q, <<>>, 1, "belief") = ret.bel
        /\ Expected(inf, q, <<>>, 1, "plausibility") = ret.pl

\* the engine that registered only the first k masses
Prefix(e, k) == [e EXCEPT !.mass = SubSeq(e.mass, 1, k)]

\* C4: coarse(q) returns 0 <= belief <= plausibility <= 1; every per-mass
\* triple and every intermediate state of the fold has a, b, u >= 0 (with
\* a + b + u = 1).
C4_CoarseBounds ==
    CoarseReturned =>
        /\ RLe(RInt(0), ret.bel) /\ RLe(ret.bel, ret.pl) /\ RLe(ret.pl, RInt(1))
        /\ \A i \in 1..Len(inf.mass) :
             LET a == As(inf, q)[i]
                 b == Bs(inf, q)[i]
             IN  /\ RLe(RInt(0), a) /\ RLe(RInt(0), b)
                 /\ RLe(RInt(0), RSub(RSub(RInt(1), a), b))
        /\ \A k \in 1..Len(inf.mass) :
             LET r == coarse(Prefix(inf, k), q)
             IN  RLe(RInt(0), r.bel) /\ RLe(r.bel, r.pl) /\ RLe(r.pl, RInt(1))

\* the reference of C8: per-mass sums over the focal elements, and the fold
\* written as a recurrence on the number of masses folded
RECURSIVE SeqSum(_)
SeqSum(seq) == IF Len(seq) = 0 THEN 0 ELSE seq[1] + SeqSum(Tail(seq))

RefA(mm, qq) ==
    Prob(SeqSum([k \in 1..Len(mm.mass) |->
                    IF implies(mm.mass[k], qq) THEN mm.probs[k] ELSE 0]))
RefB(mm, qq) ==
    Prob(SeqSum([k \in 1..Len(mm.mass) |->
                    IF intersects(mm.mass[k], qq) THEN 0 ELSE mm.probs[k]]))
RefU(mm, qq) == RSub(RSub(RInt(1), RefA(mm, qq)), RefB(mm, qq))

RSum3(a, b, c) == RAdd(a, RAdd(b, c))

RECURSIVE RefFold(_, _, _)
RefFold(masses, qq, k) ==
    IF k = 1
    THEN [a |-> RefA(masses[1], qq), b |-> RefB(masses[1], qq), u |-> RefU(masses[1], qq)]
    ELSE LET t == RefFold(masses, qq, k - 1)
             ai == RefA(masses[k], qq)
             bi == RefB(masses[k], qq)
             ui == RefU(masses[k], qq)
         IN  [a |-> RSum3(RMul(t.a, ai), RMul(t.a, ui), RMul(t.u, ai)),
              b |-> RSum3(RMul(t.b, bi), RMul(t.b, ui), RMul(t.u, bi)),
              u |-> RSum3(RMul(t.u, ui), RMul(t.a, bi), RMul(t.b, ai))]

\* the two sources and the query of the scenario of C8
ScenarioM1 ==
    BuildMass(<< <<FQ(subs), Tenths(2)>>, <<FN(subs), Tenths(3)>>, <<FO(subs), Tenths(5)>> >>)
ScenarioM2 ==
    BuildMass(<< <<FQ(subs), Tenths(6)>>, <<FN(subs), Tenths(1)>>, <<FO(subs), Tenths(3)>> >>)
Scenario ==
    /\ subs = Subsets(1, AB)
    /\ inf.mass = <<ScenarioM1, ScenarioM2>>
    /\ q = FQ(subs)

\* C8: coarse(q) returns (a, 1 - b) of the reference fold over the masses in
\* registration order, (a_1, 1 - b_1) for one mass, whatever the method; in
\* the scenario it returns (0.48, 0.83).
C8_CoarseIsReferenceFold ==
    CoarseReturned =>
        /\ LET t == RefFold(inf.mass, q, Len(inf.mass))
           IN  ret = [bel |-> t.a, pl |-> RSub(RInt(1), t.b)]
        /\ (Len(inf.mass) = 1 =>
                ret = [bel |-> RefA(inf.mass[1], q),
                       pl |-> RSub(RInt(1), RefB(inf.mass[1], q))])
        /\ (Scenario => ret = [bel |-> Rat(48, 100), pl |-> Rat(83, 100)])

\* coarse has returned (0.48, 0.83) in the scenario, under Dubois-Prade
C8_Witness ==
    /\ CoarseReturned
    /\ Scenario
    /\ inf.method = DP
    /\ ret = [bel |-> Rat(12, 25), pl |-> Rat(83, 100)]

\* C9, the result it draws from the conflict rules: approx over two
\* single-focal masses on mutually disjoint constraints, for a query disjoint
\* from both, returns exactly (0, 0) under Dubois-Prade and exactly (0, 1)
\* under Yager, for every n >= 1.
C9_DisjointSourcesResult ==
    (/\ ApproxReturned
     /\ Len(inf.mass) = 2
     /\ \A i \in 1..2 : Len(inf.mass[i].mass) = 1
     /\ ~intersects(inf.mass[1].mass[1], inf.mass[2].mass[1])
     /\ ~intersects(inf.mass[1].mass[1], q)
     /\ ~intersects(inf.mass[2].mass[1], q))
    => IF inf.method = DP
       THEN belief = 0 /\ plausibility = 0
       ELSE belief = 0 /\ plausibility = n

\* C9, the conflict rules themselves, which do hold of every trial: what a
\* pass of the loop adds to the counters is what the stated rules give for
\* one of the draws the pass can make
C9_TrialFollowsRules ==
    [][(pc = "approx" /\ j' = j + 1) =>
        \E f \in DrawIdx(inf) :
            LET E == Drawn(inf, f)
                conflict == is_empty(Combined(E))
                allImply == \A k \in 1..Len(E) : implies(E[k], q)
                someMeets == \E k \in 1..Len(E) : intersects(E[k], q)
            IN  /\ (conflict /\ inf.method = YAGER) =>
                     belief' = belief /\ plausibility' = plausibility + 1
                /\ (conflict /\ inf.method = DP) =>
                     /\ (belief' = belief + 1) = allImply
                     /\ (plausibility' = plausibility + 1) = someMeets
                /\ ~conflict =>
                     /\ (belief' = belief + 1) = implies(Combined(E), q)
                     /\ (plausibility' = plausibility + 1) = intersects(Combined(E), q)
                /\ belief' \in {belief, belief + 1}
                /\ plausibility' \in {plausibility, plausibility + 1}]_vars

(***************************************************************************)
(* Claims on Mass (checked under SpecMass).                                *)
(***************************************************************************)
\* C10: Mass.add(c, p) succeeds iff 0 <= p <= 1 and total + p <= 1 + eps; on
\* success it appends (c, p) last and raises the total by exactly p; on
\* failure the mass is unchanged.  In every state the total is the sum of the
\* stored probabilities and is at most 1 + eps.
C10_AddContract ==
    /\ [][op' = <<"add", "m">> =>
            LET s0 == args'[1]
                p == args'[2]
            IN  /\ (~err') = (0 <= p /\ p <= ONE /\ m.P + p <= ONE + EPS)
                /\ ~err' => /\ m'.mass = Append(m.mass, s0)
                            /\ m'.probs = Append(m.probs, p)
                            /\ m'.P = m.P + p
                /\ err' => m' = m]_vars
    /\ [](/\ m.P = SeqSum(m.probs)
          /\ Len(m.probs) = Len(m.mass)
          /\ m.P <= ONE + EPS)

\* after add(_, 0.6) the call add(_, 0.5) has failed and the mass still holds
\* one element with total 0.6
C10_Witness ==
    /\ op = <<"add", "m">>
    /\ err
    /\ args[2] = Tenths(5)
    /\ m.probs = <<Tenths(6)>>
    /\ m.P = Tenths(6)

(***************************************************************************)
(* Claims on registration (checked under SpecMass).                        *)
(***************************************************************************)
Normalized(mm) == Abs(mm.P - ONE) <= EPS

\* C11: add_mass(m) registers m, appended last, only when |total(m) - 1| <=
\* eps, and otherwise fails and leaves the registered list unchanged; and
\* every registered mass is normalized in every reachable state, whatever
\* Mass.add calls, succeeding or failing, were made on it after registration.
C11_RegisteredNormalized ==
    /\ [][op' = <<"add_mass", "inf">> =>
            /\ (err' <=> ~Normalized(m))
            /\ (err' => inf' = inf)
            /\ (~err' => inf' = [inf EXCEPT !.mass = Append(inf.mass, m)])]_vars
    /\ [](\A i \in 1..Len(inf.mass) : Normalized(inf.mass[i]))

\* a mass registered with total 1 - eps gained focal elements afterwards:
\* the last add, of a positive probability, succeeded on the registered
\* object and brought its total to 1 + eps
C11_Witness ==
    /\ op = <<"add", "m">> /\ ~err
    /\ alias # {}
    /\ args[2] = EPS
    /\ \A i \in alias : inf.mass[i] = m
    /\ m.P = ONE + EPS
    /\ m.probs[1] = ONE - EPS

(***************************************************************************)
(* Claims on queries (checked under Spec).                                 *)
(***************************************************************************)
IsQuery(o) == o \in {<<"coarse", "inf">>, <<"approx", "inf">>}

\* C12: no step of coarse(q) or approx(q, n), returning or failing, changes
\* the engine's method or list of registered masses, a registered mass's
\* focal elements, probabilities or total, the bitmasks of a focal element
\* or, once the call has started, the bitmasks of q; and what coarse returns
\* is its value on the engine as it stood before the call.
C12_QueriesDoNotMutate ==
    [][IsQuery(op') =>
          /\ inf' = inf
          /\ m' = m
          /\ x' = x /\ y' = y
          /\ (pc = "approx" => q' = q)
          /\ (op' = <<"coarse", "inf">> /\ ~err' => ret' = coarse(inf, q'))]_vars

\* approx has returned after trials that each drew the only focal element of
\* every source; the sources conflict, so the conjunction built by each trial
\* differs from the first focal element drawn
C12_Witness ==
    /\ ApproxReturned
    /\ n >= 1 /\ j = n
    /\ Len(inf.mass) >= 2
    /\ \A i \in 1..Len(inf.mass) : Len(inf.mass[i].mass) = 1
    /\ ~is_empty(inf.mass[1].mass[1])
    /\ is_empty(Combined([i \in 1..Len(inf.mass) |-> inf.mass[i].mass[1]]))

\* the queries the contract rejects, read off the masks
Degenerate(e, qq) ==
    \/ Len(e.mass) = 0
    \/ \E i \in 1..Len(qq) : qq[i] = 0
    \/ \A i \in 1..Len(qq) : qq[i] = subs.default

\* C13: coarse(q) and approx(q, n) fail at the call, before any trial or sum,
\* exactly when the engine has no registered mass or q is empty or q is
\* universal; otherwise coarse returns a pair at once, approx starts, can
\* draw in every trial, and with n >= 1 returns a pair.  An engine with no
\* registered mass never answers a query.
C13_EagerFailure ==
    /\ [][pc = "idle" /\ IsQuery(op') =>
            /\ (err' <=> Degenerate(inf, q'))
            /\ (err' => /\ pc' = "idle" /\ ret' = NoRet
                        /\ j' = 0 /\ belief' = 0 /\ plausibility' = 0)
            /\ (~err' /\ op' = <<"coarse", "inf">> => pc' = "idle")
            /\ (~err' /\ op' = <<"approx", "inf">> => pc' = "approx")]_vars
    /\ [][pc = "approx" /\ pc' = "idle" /\ n >= 1 =>
            ~err' /\ ret' = [bel |-> Rat(belief, n), pl |-> Rat(plausibility, n)]]_vars
    /\ [](pc = "approx" => ~Degenerate(inf, q) /\ DrawIdx(inf) # {})
    /\ [](Len(inf.mass) = 0 /\ IsQuery(op) => err /\ pc = "idle")

\* approx was called with the universal query on an engine that holds masses,
\* and failed without running a trial
C13_Witness ==
    /\ op = <<"approx", "inf">> /\ err /\ pc = "idle"
    /\ Len(inf.mass) >= 1
    /\ n >= 1 /\ j = 0
    /\ q = FO(subs)

====
